---- MODULE Spec2Model ----
(***************************************************************************)
(* A model of the AI PSD Layer Architect: the App workflow (upload,        *)
(* decomposition, per-layer extraction, export), the two Gemini service    *)
(* calls and the PSD document assembler.                                   *)
(*                                                                         *)
(* Sequences are 1-based here; the source's layer index k is k + 1.        *)
(* A normalized coordinate is modelled as the numerator of a fraction      *)
(* over Den, so that Math.round(v * dimension) is exact integer            *)
(* arithmetic.                                                             *)
(***************************************************************************)
EXTENDS Integers, Sequences, FiniteSets, Bags, TLC

(***************************************************************************)
(* Bounds of the model.                                                    *)
(***************************************************************************)
MaxLayers == 2      \* longest layer list
MaxInflight == 2    \* asynchronous calls pending at the same time
MaxSessions == 2    \* uploads in one run
MaxDim == 2         \* largest width / height of a bitmap, in pixels
MaxNum == 5         \* largest numerator of a normalized coordinate
Den == 4            \* denominator of a normalized coordinate
MaxParts == 2       \* parts of one extraction response

(***************************************************************************)
(* JavaScript values.  A value that may be null is a sequence of length    *)
(* at most one: None is null, Some(v) is v.  A layer index that may be     *)
(* null is 0 when null (layer indices start at 1 here).                    *)
(***************************************************************************)
None == <<>>
Some(v) == <<v>>
IsSome(o) == Len(o) = 1
Get(o) == o[1]

NoIndex == 0

Null == "null"
Undefined == "undefined"
EmptyString == ""

\* JavaScript truthiness of a string-valued property that may be absent
TruthyString(v) == v \notin {Null, Undefined, EmptyString}

\* pending asynchronous calls are kept in bags: their order means nothing
Add(bag, task) == bag (+) SetToBag({task})
Remove(bag, task) == bag (-) SetToBag({task})

SeqsUpTo(S, n) == UNION {[1..m -> S] : m \in 0..n}

(***************************************************************************)
(* Images.  Encoded image bytes (a file's content, a base64 payload) are   *)
(* represented by what they decode to: a bitmap of some intrinsic size,    *)
(* or garbage that createImageBitmap rejects.  A payload can moreover be   *)
(* the empty string or undefined.                                          *)
(***************************************************************************)
Png(w, h) == [kind |-> "png", width |-> w, height |-> h]
Garbage == [kind |-> "garbage", width |-> 0, height |-> 0]
EmptyPayload == [kind |-> "empty", width |-> 0, height |-> 0]
UndefinedPayload == [kind |-> "undefined", width |-> 0, height |-> 0]

\* JavaScript truthiness of a payload (a string or undefined)
Truthy(p) == p.kind \notin {"empty", "undefined"}

Pngs == {Png(w, h) : w \in 1..MaxDim, h \in 1..MaxDim}

\* the two payloads the workflow model lets the extraction service answer
P1 == Png(1, 1)
P2 == Png(MaxDim, 1)

\* the files a user can upload: the name, split at its dots, and the content
Files ==
  {[name |-> <<"a", "png">>, content |-> Png(MaxDim, 1)],
   [name |-> <<"b">>, content |-> Garbage]}

\* URL.createObjectURL(file)
createObjectURL(file) == [blob |-> file.content]

\* `data:image/png;base64,${payload}`
dataUrl(payload) == [blob |-> payload]

(***************************************************************************)
(* The layer model (types.ts) and the responses of the remote model.       *)
(***************************************************************************)
LayerType == {"image", "shape", "text"}

BoundingBox(x, y, w, h) == [kind |-> "object", x |-> x, y |-> y, width |-> w, height |-> h]
NoBoundingBox == [kind |-> "undefined", x |-> 0, y |-> 0, width |-> 0, height |-> 0]

\* a boundingBox object that lacks one of its four coordinates
PartialBoundingBox == [kind |-> "partial", x |-> 0, y |-> 0, width |-> 0, height |-> 0]

Coords == 0..MaxNum

\* every bounding box over the coordinate grid, overflowing ones included
FineBoxes == {BoundingBox(x, y, w, h) : x \in Coords, y \in Coords, w \in Coords, h \in Coords}

\* a few boxes: whole canvas, left or top part, a sliver, an overflowing one
CoarseBoxes ==
  {BoundingBox(0, 0, Den, Den), BoundingBox(0, 0, Den \div 2, Den),
   BoundingBox(Den \div 2, 0, 1, 1), BoundingBox(Den \div 2, Den \div 2, MaxNum, Den)}

\* a layer as decoded from the response; extractedImage is absent at first
Layer(name, description, type, box) ==
  [name |-> name, description |-> description, type |-> type, boundingBox |-> box,
   extractedImage |-> UndefinedPayload]

\* { ...targetLayer, extractedImage: extractedBase64 }
WithExtractedImage(layer, payload) == [layer EXCEPT !.extractedImage = payload]

(***************************************************************************)
(* geminiService.ts: analyzeImageForLayers.  A response is the outcome of  *)
(* generateContent: the call rejects, response.text is empty, the text is  *)
(* no JSON, the JSON is no array, or it is an array of items.              *)
(***************************************************************************)
DecomposeResponse(kind, items) == [kind |-> kind, items |-> items]

\* the validation without its last disjunct
InvalidItemBoxUnchecked(item) ==
  \/ ~TruthyString(item.name)
  \/ ~TruthyString(item.description)
  \/ ~TruthyString(item.type)

\* item => !item.name || !item.description || !item.type || !item.boundingBox
InvalidItem(item) ==
  \/ ~TruthyString(item.name)
  \/ ~TruthyString(item.description)
  \/ ~TruthyString(item.type)
  \/ item.boundingBox.kind = "undefined"

\* the error thrown inside the try block, "" when none is
AnalyzeThrown(resp) ==
  CASE resp.kind = "rejected" -> "generateContent rejected"
    [] resp.kind = "noText" -> "API returned an empty response."
    [] resp.kind = "notJson" -> "SyntaxError"
    [] resp.kind = "notArray" -> "Invalid JSON structure received from API."
    [] OTHER ->
         IF \E k \in 1..Len(resp.items) : InvalidItem(resp.items[k])
           THEN "Invalid JSON structure received from API."
           ELSE ""

\* the whole function: every error is caught and replaced by one message
analyzeImageForLayers(resp) ==
  IF AnalyzeThrown(resp) # ""
    THEN [ok |-> FALSE, error |-> "Failed to communicate with the AI model.", layers |-> <<>>]
    ELSE [ok |-> TRUE, error |-> "", layers |-> resp.items]

(***************************************************************************)
(* geminiService.ts: extractImageLayer.  A response is a rejected call, a  *)
(* response without candidates, or the parts of the first candidate.       *)
(***************************************************************************)
TextPart == [hasInlineData |-> FALSE, data |-> UndefinedPayload]
InlinePart(payload) == [hasInlineData |-> TRUE, data |-> payload]

ExtractResponse(kind, parts) == [kind |-> kind, parts |-> parts]

\* for (const part of parts) if (part.inlineData) return part.inlineData.data
RECURSIVE FirstInlineData(_)
FirstInlineData(parts) ==
  IF parts = <<>> THEN [found |-> FALSE, data |-> UndefinedPayload]
  ELSE IF Head(parts).hasInlineData THEN [found |-> TRUE, data |-> Head(parts).data]
  ELSE FirstInlineData(Tail(parts))

extractImageLayer(resp) ==
  IF resp.kind = "ok" /\ FirstInlineData(resp.parts).found
    THEN [ok |-> TRUE, error |-> "", data |-> FirstInlineData(resp.parts).data]
    ELSE [ok |-> FALSE, error |-> "Failed to extract image layer with the AI model.",
          data |-> UndefinedPayload]

(***************************************************************************)
(* psdService.ts: the document assembler.                                  *)
(***************************************************************************)
\* typeToRgba: the guide colour of each category
typeToRgba ==
  [image |-> <<74, 222, 128, 100>>,
   shape |-> <<250, 204, 21, 100>>,
   text |-> <<248, 113, 113, 100>>]

\* opacity in percent: a guide layer is pushed with opacity 0.7, the other
\* layers without one, which the document format reads as fully opaque
GuideOpacity == 70
FullOpacity == 100
Opacity(psdLayer) == IF psdLayer.opacity = None THEN FullOpacity ELSE Get(psdLayer.opacity)

\* the quotient truncated instead of rounded
RoundTruncated(num, den) == num \div den

\* Math.round(num / den): the nearest integer, a half rounding up
Round(num, den) == (2 * num + den) \div (2 * den)

\* Math.round(v * dimension) for the normalized coordinate v / Den
ToPixels(v, dimension) == Round(v * dimension, Den)

\* layer.type.toUpperCase()
ToUpperCase(type) ==
  CASE type = "image" -> "IMAGE"
    [] type = "shape" -> "SHAPE"
    [] type = "text" -> "TEXT"
    [] OTHER -> "GROUP"

\* the decoder accepting any bytes
loadImageDataUnchecked(url) ==
  [ok |-> TRUE, width |-> url.blob.width, height |-> url.blob.height]

\* loadImageData: fetch the URL and decode it with createImageBitmap
loadImageData(url) ==
  IF url.blob.kind = "png"
    THEN [ok |-> TRUE, width |-> url.blob.width, height |-> url.blob.height]
    ELSE [ok |-> FALSE, width |-> 0, height |-> 0]

\* loadImageDataFromBase64
loadImageDataFromBase64(base64) == loadImageData(dataUrl(base64))

\* pixel data: decoded from encoded bytes, or read back from the scratch
\* canvas as the set of painted pixels (every other pixel is transparent)
DecodedData(blob) == [from |-> "bitmap", blob |-> blob, painted |-> {}]
CanvasData(width, height, painted) ==
  [from |-> "canvas", blob |-> Png(width, height), painted |-> painted]

\* ctx.fillRect(x, y, w, h) with fill colour rgba on a canvas of the given
\* size: the pixels of the rectangle that lie on the canvas get painted
fillRect(canvas, width, height, rect, rgba) ==
  canvas \cup
    {[px |-> px, py |-> py, rgba |-> rgba] :
       px \in {c \in 0..(width - 1) : rect.x <= c /\ c < rect.x + rect.w},
       py \in {r \in 0..(height - 1) : rect.y <= r /\ r < rect.y + rect.h}}

\* the scratch canvas left as the previous layer painted it
clearRectForgotten(canvas) == canvas

\* ctx.clearRect(0, 0, width, height)
clearRect(canvas) == {}

NoPsd == [width |-> 0, height |-> 0, children |-> <<>>]

\* writePsd({ width, height, children })
writePsd(width, height, children) == [width |-> width, height |-> height, children |-> children]

\* the list left in the order it was built
ReverseForgotten(s) == s

\* psdLayers.reverse()
RECURSIVE Reverse(_)
Reverse(s) == IF s = <<>> THEN <<>> ELSE Append(Reverse(Tail(s)), Head(s))

\* the first element of psdLayers
OriginalLayer(imageUrl, width, height) ==
  [name |-> <<"Original Image">>, imageData |-> DecodedData(imageUrl.blob),
   left |-> 0, top |-> 0, right |-> width, bottom |-> height, opacity |-> None]

\* the cutout stretched to the size of the bounding box
ExtractedLayerStretched(layer, width, height) ==
  LET left == ToPixels(layer.boundingBox.x, width)
      top == ToPixels(layer.boundingBox.y, height)
  IN  [name |-> <<"[Extracted] ", layer.name>>,
       imageData |-> DecodedData(layer.extractedImage),
       left |-> left, top |-> top,
       right |-> left + ToPixels(layer.boundingBox.width, width),
       bottom |-> top + ToPixels(layer.boundingBox.height, height),
       opacity |-> None]

\* the layer pushed for an extracted image layer
ExtractedLayer(layer, width, height) ==
  LET extracted == loadImageDataFromBase64(layer.extractedImage)
      left == ToPixels(layer.boundingBox.x, width)
      top == ToPixels(layer.boundingBox.y, height)
  IN  [name |-> <<"[Extracted] ", layer.name>>,
       imageData |-> DecodedData(layer.extractedImage),
       left |-> left, top |-> top,
       right |-> left + extracted.width, bottom |-> top + extracted.height,
       opacity |-> None]

\* the rectangle taken between the rounded corners of the box
GuideRectCorners(layer, width, height) ==
  [x |-> ToPixels(layer.boundingBox.x, width),
   y |-> ToPixels(layer.boundingBox.y, height),
   w |-> ToPixels(layer.boundingBox.x + layer.boundingBox.width, width)
           - ToPixels(layer.boundingBox.x, width),
   h |-> ToPixels(layer.boundingBox.y + layer.boundingBox.height, height)
           - ToPixels(layer.boundingBox.y, height)]

\* the rectangle filled for a guide layer
GuideRect(layer, width, height) ==
  [x |-> ToPixels(layer.boundingBox.x, width),
   y |-> ToPixels(layer.boundingBox.y, height),
   w |-> ToPixels(layer.boundingBox.width, width),
   h |-> ToPixels(layer.boundingBox.height, height)]

\* the layer pushed for a guide, given the scratch canvas after the fill
GuideLayer(layer, width, height, canvas) ==
  [name |-> <<"[", ToUpperCase(layer.type), "] ", layer.name>>,
   imageData |-> CanvasData(width, height, canvas),
   left |-> 0, top |-> 0, right |-> width, bottom |-> height,
   opacity |-> Some(GuideOpacity)]

\* every image layer sent down the cutout path, cached or not
TakesCutoutPathEveryImage(layer) == layer.type = "image"

\* layer.type === 'image' && layer.extractedImage
TakesCutoutPath(layer) == layer.type = "image" /\ Truthy(layer.extractedImage)

(***************************************************************************)
(* exportToPsd as a machine: the state of one call.                        *)
(***************************************************************************)
AsmIdle ==
  [pc |-> "idle", imageUrl |-> [blob |-> Garbage], layers |-> <<>>, i |-> 0,
   width |-> 0, height |-> 0, psdLayers |-> <<>>, layerCanvas |-> {},
   error |-> "", psd |-> NoPsd]

\* the call exportToPsd(imageUrl, layers)
AsmCall(imageUrl, layers) == [AsmIdle EXCEPT !.pc = "load", !.imageUrl = imageUrl, !.layers = layers]

AsmThrow(a, error) == [a EXCEPT !.pc = "failed", !.error = error]

\* lines 37-53: decode the original, start psdLayers, create the scratch canvas
AsmLoad(a, ctxOk) ==
  LET base == loadImageData(a.imageUrl) IN
  IF ~base.ok THEN AsmThrow(a, "DecodeError")
  ELSE IF ~ctxOk
    THEN AsmThrow([a EXCEPT !.width = base.width, !.height = base.height,
                            !.psdLayers = <<OriginalLayer(a.imageUrl, base.width, base.height)>>],
                  "Could not create layer canvas context")
  ELSE [a EXCEPT !.pc = "loop", !.i = 1, !.width = base.width, !.height = base.height,
                 !.psdLayers = <<OriginalLayer(a.imageUrl, base.width, base.height)>>]

\* the loop skipping a guide whose rectangle has no pixels
AsmIterateDropsEmpty(a) ==
  LET layer == a.layers[a.i] IN
  IF TakesCutoutPath(layer)
    THEN IF ~loadImageDataFromBase64(layer.extractedImage).ok
           THEN AsmThrow(a, "DecodeError")
           ELSE [a EXCEPT !.i = a.i + 1,
                          !.psdLayers = Append(a.psdLayers, ExtractedLayer(layer, a.width, a.height))]
    ELSE IF layer.type \notin DOMAIN typeToRgba
           THEN AsmThrow([a EXCEPT !.layerCanvas = clearRect(a.layerCanvas)], "TypeError")
    ELSE IF GuideRect(layer, a.width, a.height).w = 0 \/ GuideRect(layer, a.width, a.height).h = 0
           THEN [a EXCEPT !.i = a.i + 1, !.layerCanvas = clearRect(a.layerCanvas)]
           ELSE LET canvas == fillRect(clearRect(a.layerCanvas), a.width, a.height,
                                       GuideRect(layer, a.width, a.height),
                                       typeToRgba[layer.type])
                IN  [a EXCEPT !.i = a.i + 1, !.layerCanvas = canvas,
                              !.psdLayers = Append(a.psdLayers,
                                                   GuideLayer(layer, a.width, a.height, canvas))]

\* lines 55-99: one iteration of the loop over the layers
AsmIterate(a) ==
  LET layer == a.layers[a.i] IN
  IF TakesCutoutPath(layer)
    THEN IF ~loadImageDataFromBase64(layer.extractedImage).ok
           THEN AsmThrow(a, "DecodeError")
           ELSE [a EXCEPT !.i = a.i + 1,
                          !.psdLayers = Append(a.psdLayers, ExtractedLayer(layer, a.width, a.height))]
    ELSE IF layer.type \notin DOMAIN typeToRgba
           THEN AsmThrow([a EXCEPT !.layerCanvas = clearRect(a.layerCanvas)], "TypeError")
           ELSE LET canvas == fillRect(clearRect(a.layerCanvas), a.width, a.height,
                                       GuideRect(layer, a.width, a.height),
                                       typeToRgba[layer.type])
                IN  [a EXCEPT !.i = a.i + 1, !.layerCanvas = canvas,
                              !.psdLayers = Append(a.psdLayers,
                                                   GuideLayer(layer, a.width, a.height, canvas))]

\* lines 101-110: reverse the layers and serialize
AsmFinish(a) ==
  LET reversed == Reverse(a.psdLayers) IN
  [a EXCEPT !.pc = "done", !.psdLayers = reversed,
            !.psd = writePsd(a.width, a.height, reversed)]

\* the call run to its end
RECURSIVE AsmRun(_, _)
AsmRun(a, ctxOk) ==
  CASE a.pc = "load" -> AsmRun(AsmLoad(a, ctxOk), ctxOk)
    [] a.pc = "loop" /\ a.i <= Len(a.layers) -> AsmRun(AsmIterate(a), ctxOk)
    [] a.pc = "loop" /\ a.i > Len(a.layers) -> AsmRun(AsmFinish(a), ctxOk)
    [] OTHER -> a

\* exportToPsd(imageUrl, layers): resolves with the document or rejects
exportToPsd(imageUrl, layers, ctxOk) ==
  LET a == AsmRun(AsmCall(imageUrl, layers), ctxOk)
  IN  [ok |-> a.pc = "done", error |-> a.error, psd |-> a.psd]

(***************************************************************************)
(* The state.  The first nine variables are the useState cells of App.     *)
(***************************************************************************)
VARIABLES
  imageFile,             \* None or Some(file)
  imageUrl,              \* None or Some(object URL of the file)
  layers,                \* None or Some(sequence of layers)
  isLoading,
  statusMessage,
  error,                 \* Null or a message
  extractingLayerIndex,  \* NoIndex or a layer index
  modalImage,            \* None or Some(data URL of the previewed cutout)
  isExportingPsd,
  analyses,              \* the processImage calls that are pending
  extractions,           \* the handleExtractLayer calls that are pending
  exports,               \* the handleExportPsd calls that are pending
  download,              \* Some(the file the last step made the browser download), else None
  session,               \* history: the number of uploads so far
  populated,             \* history: the layers cached since the list was set
  asm,                   \* one call of exportToPsd, step by step
  analyzed,              \* one call of analyzeImageForLayers
  extracted              \* one call of extractImageLayer

appVars ==
  <<imageFile, imageUrl, layers, isLoading, statusMessage, error, extractingLayerIndex,
    modalImage, isExportingPsd, analyses, extractions, exports, download, session,
    populated>>

vars == <<appVars, asm, analyzed, extracted>>

AnalyzeIdle ==
  [called |-> FALSE, response |-> DecomposeResponse("rejected", <<>>),
   result |-> analyzeImageForLayers(DecomposeResponse("rejected", <<>>))]

ExtractIdle ==
  [called |-> FALSE, response |-> ExtractResponse("rejected", <<>>),
   result |-> extractImageLayer(ExtractResponse("rejected", <<>>))]

\* the state of App after construction
AppInit ==
  /\ imageFile = None
  /\ imageUrl = None
  /\ layers = None
  /\ isLoading = FALSE
  /\ statusMessage = ""
  /\ error = Null
  /\ extractingLayerIndex = NoIndex
  /\ modalImage = None
  /\ isExportingPsd = FALSE
  /\ analyses = EmptyBag
  /\ extractions = EmptyBag
  /\ exports = EmptyBag
  /\ download = None
  /\ session = 0
  /\ populated = {}

Init == AppInit /\ asm = AsmIdle /\ analyzed = AnalyzeIdle /\ extracted = ExtractIdle

(***************************************************************************)
(* What the remote model answers in the workflow model.                    *)
(***************************************************************************)
WholeCanvas == BoundingBox(0, 0, Den, Den)

AppItems ==
  {Layer("Sky", "A blue sky.", "image", WholeCanvas),
   Layer("Title", "Text: SALE, Color Hex: #FFFFFF", "text", WholeCanvas),
   Layer(Undefined, "A blue sky.", "image", WholeCanvas)}

AppDecomposeResponses ==
  {DecomposeResponse(kind, <<>>) : kind \in {"rejected", "noText", "notJson", "notArray"}}
    \cup {DecomposeResponse("array", items) : items \in SeqsUpTo(AppItems, MaxLayers)}

AppParts == {TextPart, InlinePart(P1), InlinePart(P2)}

\* "unread" stands for fileToBase64 rejecting before the request is sent
AppExtractResponses ==
  {ExtractResponse(kind, <<>>) : kind \in {"unread", "rejected", "noCandidates"}}
    \cup {ExtractResponse("ok", parts) : parts \in SeqsUpTo(AppParts, MaxParts)}

(***************************************************************************)
(* App: what is rendered.                                                  *)
(***************************************************************************)
\* {imageUrl && layers && !isLoading && <ResultDisplay ... />}
ResultDisplayed == IsSome(imageUrl) /\ IsSome(layers) /\ ~isLoading

\* {!imageUrl && <ImageUploader ... />}
UploaderDisplayed == ~IsSome(imageUrl)

\* {error && ... <button onClick={handleReset}>Try Again}
ErrorDisplayed == error # Null

\* the Extract button of a layer: rendered for image layers, disabled={isExtracting}
ExtractEnabled(i) ==
  /\ ResultDisplayed
  /\ i \in 1..Len(Get(layers))
  /\ Get(layers)[i].type = "image"
  /\ extractingLayerIndex # i

\* the Export button: disabled={isExportingPsd}
ExportEnabled == ResultDisplayed /\ ~isExportingPsd

Inflight == BagCardinality(analyses) + BagCardinality(extractions) + BagCardinality(exports)

(***************************************************************************)
(* App: handleImageUpload and processImage.                                *)
(***************************************************************************)
\* handleImageUpload(file), up to the first await of processImage
Upload(file) ==
  /\ UploaderDisplayed
  /\ session < MaxSessions
  /\ Inflight < MaxInflight
  /\ imageFile' = Some(file)
  /\ imageUrl' = Some(createObjectURL(file))
  /\ isLoading' = TRUE
  /\ error' = Null
  /\ layers' = None
  /\ statusMessage' = "Converting image for analysis..."
  /\ analyses' = Add(analyses, [file |-> file, pc |-> "convert", session |-> session + 1])
  /\ session' = session + 1
  /\ populated' = {}
  /\ UNCHANGED <<extractingLayerIndex, modalImage, isExportingPsd, extractions, exports,
                 asm, analyzed, extracted>>
  /\ download' = None

\* processImage: fileToBase64 resolved, the request is sent
AnalysisRead(task) ==
  /\ BagIn(task, analyses)
  /\ task.pc = "convert"
  /\ statusMessage' = "AI is analyzing image layers..."
  /\ analyses' = Add(Remove(analyses, task), [task EXCEPT !.pc = "analyze"])
  /\ UNCHANGED <<imageFile, imageUrl, layers, isLoading, error, extractingLayerIndex,
                 modalImage, isExportingPsd, extractions, exports, session,
                 populated, asm, analyzed, extracted>>
  /\ download' = None

\* processImage: the catch and finally blocks
AnalysisFailed(task) ==
  /\ error' = "Failed to analyze the image. Please try again with a different image."
  /\ isLoading' = FALSE
  /\ statusMessage' = ""
  /\ analyses' = Remove(analyses, task)
  /\ UNCHANGED <<imageFile, imageUrl, layers, extractingLayerIndex, modalImage,
                 isExportingPsd, extractions, exports, session, populated,
                 asm, analyzed, extracted>>
  /\ download' = None

\* processImage: fileToBase64 rejected
AnalysisReadFails(task) ==
  /\ BagIn(task, analyses)
  /\ task.pc = "convert"
  /\ AnalysisFailed(task)

\* processImage: analyzeImageForLayers settled with the response resp
AnalysisDone(task, resp) ==
  /\ BagIn(task, analyses)
  /\ task.pc = "analyze"
  /\ LET result == analyzeImageForLayers(resp) IN
     IF result.ok
       THEN /\ layers' = Some(result.layers)
            /\ populated' = {}
            /\ isLoading' = FALSE
            /\ statusMessage' = ""
            /\ analyses' = Remove(analyses, task)
            /\ UNCHANGED <<imageFile, imageUrl, error, extractingLayerIndex, modalImage,
                           isExportingPsd, extractions, exports, session,
                           asm, analyzed, extracted>>
            /\ download' = None
       ELSE AnalysisFailed(task)

\* handleReset
Reset ==
  /\ ErrorDisplayed \/ ResultDisplayed
  /\ imageFile' = None
  /\ imageUrl' = None
  /\ layers' = None
  /\ isLoading' = FALSE
  /\ error' = Null
  /\ statusMessage' = ""
  /\ extractingLayerIndex' = NoIndex
  /\ modalImage' = None
  /\ isExportingPsd' = FALSE
  /\ populated' = {}
  /\ UNCHANGED <<analyses, extractions, exports, session, asm, analyzed, extracted>>
  /\ download' = None

(***************************************************************************)
(* App: handleExtractLayer.                                                *)
(***************************************************************************)
\* a pending call belongs to the session that is open now
Current(task) == task.session = session /\ IsSome(imageFile)

\* handleExtractLayer(i), up to its return or its awaits; the call keeps the
\* imageFile and the layers of the render it was created in
ExtractLayer(i) ==
  /\ ExtractEnabled(i)
  /\ IF ~IsSome(imageFile)
       THEN UNCHANGED <<modalImage, extractingLayerIndex, error, extractions>>
     ELSE IF Truthy(Get(layers)[i].extractedImage)
       THEN /\ modalImage' = Some(dataUrl(Get(layers)[i].extractedImage))
            /\ UNCHANGED <<extractingLayerIndex, error, extractions>>
     ELSE /\ Inflight < MaxInflight
          /\ extractingLayerIndex' = i
          /\ error' = Null
          /\ extractions' = Add(extractions,
                                [layerIndex |-> i, layers |-> Get(layers),
                                 imageFile |-> Get(imageFile), session |-> session])
          /\ UNCHANGED modalImage
  /\ UNCHANGED <<imageFile, imageUrl, layers, isLoading, statusMessage, isExportingPsd,
                 analyses, exports, session, populated, asm, analyzed, extracted>>
  /\ download' = None

\* const updatedLayers = [...layers]; updatedLayers[layerIndex] = {...}
UpdatedLayers(task, payload) ==
  [task.layers EXCEPT ![task.layerIndex] =
     WithExtractedImage(task.layers[task.layerIndex], payload)]

\* the awaits of handleExtractLayer settled, the remote call with the
\* response resp: the rest of the try block, or catch; then finally
ExtractionDone(task, resp) ==
  /\ BagIn(task, extractions)
  /\ LET result == extractImageLayer(resp) IN
     IF result.ok
       THEN /\ layers' = Some(UpdatedLayers(task, result.data))
            /\ modalImage' = Some(dataUrl(result.data))
            /\ populated' = IF Current(task) /\ Truthy(result.data)
                              THEN populated \cup {task.layerIndex}
                              ELSE populated
            /\ UNCHANGED error
       ELSE /\ error' = "Failed to extract the layer. The AI may not have been able to isolate it."
            /\ UNCHANGED <<layers, modalImage, populated>>
  /\ extractingLayerIndex' = NoIndex
  /\ extractions' = Remove(extractions, task)
  /\ UNCHANGED <<imageFile, imageUrl, isLoading, statusMessage, isExportingPsd, analyses,
                 exports, session, asm, analyzed, extracted>>
  /\ download' = None

\* the Close button and the backdrop of the preview
CloseModal ==
  /\ IsSome(modalImage)
  /\ modalImage' = None
  /\ UNCHANGED <<imageFile, imageUrl, layers, isLoading, statusMessage, error,
                 extractingLayerIndex, isExportingPsd, analyses, extractions, exports,
                 session, populated, asm, analyzed, extracted>>
  /\ download' = None

(***************************************************************************)
(* App: handleExportPsd.                                                   *)
(***************************************************************************)
\* imageFile.name.substring(0, imageFile.name.lastIndexOf('.')) || imageFile.name,
\* then `${originalFileName}-layers.psd`
DownloadName(name) ==
  LET stem == SubSeq(name, 1, Len(name) - 1)
  IN  Append(IF stem \in {<<>>, <<"">>} THEN name ELSE stem, "-layers.psd")

\* handleExportPsd, up to its await
ExportPsd ==
  /\ ExportEnabled
  /\ Inflight < MaxInflight
  /\ IF ~IsSome(imageFile)
       THEN UNCHANGED <<isExportingPsd, error, exports>>
       ELSE /\ isExportingPsd' = TRUE
            /\ error' = Null
            /\ exports' = Add(exports,
                              [imageUrl |-> Get(imageUrl), layers |-> Get(layers),
                               imageFile |-> Get(imageFile), session |-> session])
  /\ UNCHANGED <<imageFile, imageUrl, layers, isLoading, statusMessage,
                 extractingLayerIndex, modalImage, analyses, extractions, session, populated, asm, analyzed, extracted>>
  /\ download' = None

\* the completion of an export that also closes the preview
ExportDoneClosesModal(task, ctxOk) ==
  /\ BagIn(task, exports)
  /\ LET result == exportToPsd(task.imageUrl, task.layers, ctxOk) IN
     IF result.ok
       THEN /\ download' = Some([name |-> DownloadName(task.imageFile.name),
                                 bytes |-> result.psd])
            /\ UNCHANGED error
       ELSE /\ error' = "Failed to export PSD file."
            /\ download' = None
  /\ isExportingPsd' = FALSE
  /\ modalImage' = None
  /\ exports' = Remove(exports, task)
  /\ UNCHANGED <<imageFile, imageUrl, layers, isLoading, statusMessage,
                 extractingLayerIndex, analyses, extractions, session,
                 populated, asm, analyzed, extracted>>

\* exportToPsd settled: the download, or the catch block; then finally
ExportDone(task, ctxOk) ==
  /\ BagIn(task, exports)
  /\ LET result == exportToPsd(task.imageUrl, task.layers, ctxOk) IN
     IF result.ok
       THEN /\ download' = Some([name |-> DownloadName(task.imageFile.name),
                                 bytes |-> result.psd])
            /\ UNCHANGED error
       ELSE /\ error' = "Failed to export PSD file."
            /\ download' = None
  /\ isExportingPsd' = FALSE
  /\ exports' = Remove(exports, task)
  /\ UNCHANGED <<imageFile, imageUrl, layers, isLoading, statusMessage,
                 extractingLayerIndex, modalImage, analyses, extractions, session,
                 populated, asm, analyzed, extracted>>

Next ==
  \/ \E file \in Files : Upload(file)
  \/ \E task \in BagToSet(analyses) : AnalysisRead(task)
  \/ \E task \in BagToSet(analyses) : AnalysisReadFails(task)
  \/ \E task \in BagToSet(analyses), resp \in AppDecomposeResponses : AnalysisDone(task, resp)
  \/ Reset
  \/ \E i \in 1..MaxLayers : ExtractLayer(i)
  \/ \E task \in BagToSet(extractions), resp \in AppExtractResponses : ExtractionDone(task, resp)
  \/ CloseModal
  \/ ExportPsd
  \/ \E task \in BagToSet(exports), ctxOk \in BOOLEAN : ExportDone(task, ctxOk)

Spec == Init /\ [][Next]_vars

(***************************************************************************)
(* The document assembler on its own: exportToPsd is called with an        *)
(* arbitrary image and layer list and runs step by step.                   *)
(***************************************************************************)
PsdUrls == {[blob |-> blob] : blob \in Pngs \cup {Garbage}}

\* layers over the given boxes; only image layers get a cache in the App,
\* a cached shape layer stands for the other inputs the function accepts
LayerInputs(boxes, payloads) ==
  {WithExtractedImage(Layer("Sky", "A blue sky.", te[1], box), te[2]) :
     box \in boxes,
     te \in ({"image"} \X payloads)
              \cup ({"shape", "text", "group"} \X {UndefinedPayload})
              \cup {<<"shape", P1>>}}

\* one layer with any box and any payload, or several simpler layers
PsdInputs ==
  {<<layer>> : layer \in LayerInputs(FineBoxes, Pngs \cup {UndefinedPayload, EmptyPayload, Garbage})}
    \cup SeqsUpTo(LayerInputs(CoarseBoxes, {UndefinedPayload, P2, Garbage}), MaxLayers)

InitPsd ==
  /\ AppInit
  /\ analyzed = AnalyzeIdle
  /\ extracted = ExtractIdle
  /\ asm \in {AsmCall(url, input) : url \in PsdUrls, input \in PsdInputs}

PsdLoad(ctxOk) ==
  /\ asm.pc = "load"
  /\ asm' = AsmLoad(asm, ctxOk)
  /\ UNCHANGED <<appVars, analyzed, extracted>>

PsdIterate ==
  /\ asm.pc = "loop"
  /\ asm.i <= Len(asm.layers)
  /\ asm' = AsmIterate(asm)
  /\ UNCHANGED <<appVars, analyzed, extracted>>

PsdFinish ==
  /\ asm.pc = "loop"
  /\ asm.i > Len(asm.layers)
  /\ asm' = AsmFinish(asm)
  /\ UNCHANGED <<appVars, analyzed, extracted>>

NextPsd ==
  \/ \E ctxOk \in BOOLEAN : PsdLoad(ctxOk)
  \/ PsdIterate
  \/ PsdFinish

SpecPsd == InitPsd /\ [][NextPsd]_vars

(***************************************************************************)
(* The two service functions on their own, applied to any response.        *)
(***************************************************************************)
ItemNames == {Undefined, EmptyString, "Sky"}
ItemDescriptions == {Undefined, EmptyString, "A blue sky."}
ItemTypes == {Undefined, EmptyString, "image", "text", "group"}
ItemBoxes == {NoBoundingBox, PartialBoundingBox, WholeCanvas}

Items == {Layer(n, d, t, b) : n \in ItemNames, d \in ItemDescriptions, t \in ItemTypes, b \in ItemBoxes}

DecomposeResponses ==
  {DecomposeResponse(kind, <<>>) : kind \in {"rejected", "noText", "notJson", "notArray"}}
    \cup {DecomposeResponse("array", items) : items \in SeqsUpTo(Items, MaxLayers)}

Parts == {TextPart} \cup {InlinePart(p) : p \in {P1, P2, EmptyPayload, UndefinedPayload, Garbage}}

ExtractResponses ==
  {ExtractResponse(kind, <<>>) : kind \in {"rejected", "noCandidates"}}
    \cup {ExtractResponse("ok", parts) : parts \in SeqsUpTo(Parts, MaxParts)}

InitGemini == AppInit /\ asm = AsmIdle /\ analyzed = AnalyzeIdle /\ extracted = ExtractIdle

CallAnalyze(resp) ==
  /\ ~analyzed.called /\ ~extracted.called
  /\ analyzed' = [called |-> TRUE, response |-> resp, result |-> analyzeImageForLayers(resp)]
  /\ UNCHANGED <<appVars, asm, extracted>>

CallExtract(resp) ==
  /\ ~analyzed.called /\ ~extracted.called
  /\ extracted' = [called |-> TRUE, response |-> resp, result |-> extractImageLayer(resp)]
  /\ UNCHANGED <<appVars, asm, analyzed>>

NextGemini ==
  \/ \E resp \in DecomposeResponses : CallAnalyze(resp)
  \/ \E resp \in ExtractResponses : CallExtract(resp)

SpecGemini == InitGemini /\ [][NextGemini]_vars

(***************************************************************************)
(* Properties of the workflow (Spec).                                      *)
(***************************************************************************)
\* the pending extraction calls of the open session for layer i
Requests(bag, i) ==
  BagCardinality([task \in {t \in BagToSet(bag) : t.layerIndex = i /\ Current(t)}
                    |-> CopiesIn(task, bag)])

\* the step completes the extraction call task
Completes(task) == BagIn(task, extractions) /\ extractions' = Remove(extractions, task)

Cache(list, i) == list[i].extractedImage

\* C1: concurrent extractions of two layers of one session do not disturb
\* each other: the completion of the extraction of one layer leaves the
\* populated cache slot of every other layer as it was, so that after both
\* completed the layer array holds both payloads.
C1_NoLostUpdate ==
  [][\A task \in BagToSet(extractions) :
       (Completes(task) /\ Current(task) /\ IsSome(layers) /\ IsSome(layers'))
         => \A j \in 1..Len(Get(layers)) :
              (j # task.layerIndex /\ Truthy(Cache(Get(layers), j)))
                => /\ j <= Len(Get(layers'))
                   /\ Cache(Get(layers'), j) = Cache(Get(layers), j)]_vars

\* C2: once the cache of a layer has been populated in a session, an extract
\* action on that layer sends no request and opens the preview with a
\* payload that is cached; the layer is never requested again.
C2_NeverRequestedAgain ==
  [][(IsSome(imageFile) /\ IsSome(layers) /\ imageFile' = imageFile)
       => \A i \in populated :
            /\ Requests(extractions', i) <= Requests(extractions, i)
            /\ (extractions' = extractions /\ layers' = layers /\ IsSome(modalImage')
                  /\ modalImage' # modalImage)
                 => \E j \in 1..Len(Get(layers)) :
                      /\ Truthy(Cache(Get(layers), j))
                      /\ modalImage' = Some(dataUrl(Cache(Get(layers), j)))]_vars

\* C3: at most one extraction request per layer of the open session is
\* pending at any time.
C3_OneRequestPerLayer ==
  \A i \in 1..MaxLayers : Requests(extractions, i) <= 1

\* C4: the result of a request that was issued before a reset is never
\* applied: a call that does not belong to the open session completes
\* without changing the layer list or opening the preview.
C4_StaleResultDiscarded ==
  [][/\ \A task \in BagToSet(extractions) :
          (Completes(task) /\ ~Current(task))
            => (layers' = layers /\ modalImage' = modalImage)
     /\ \A task \in BagToSet(analyses) :
          (analyses' = Remove(analyses, task) /\ ~Current(task))
            => layers' = layers]_vars

\* the extraction status of layer i of the list, given the pending calls
Status(list, bag, i) ==
  IF Truthy(Cache(list, i)) THEN "Extracted"
  ELSE IF Requests(bag, i) > 0 THEN "Extracting"
  ELSE "NotExtracted"

StatusMoves ==
  {<<"NotExtracted", "Extracting">>, <<"Extracting", "Extracted">>,
   <<"Extracting", "NotExtracted">>}

\* C7: within a session the extraction status of a layer only moves
\* NotExtracted -> Extracting -> Extracted or NotExtracted -> Extracting ->
\* NotExtracted, and a completion that leaves the layer's cache empty
\* surfaces an error and changes no cache slot.
C7_StatusMoves ==
  [][(IsSome(imageFile) /\ imageFile' = imageFile /\ session' = session
        /\ IsSome(layers) /\ IsSome(layers') /\ Len(Get(layers')) = Len(Get(layers)))
       => /\ \A i \in 1..Len(Get(layers)) :
               \/ Status(Get(layers'), extractions', i) = Status(Get(layers), extractions, i)
               \/ <<Status(Get(layers), extractions, i),
                    Status(Get(layers'), extractions', i)>> \in StatusMoves
          /\ \A task \in BagToSet(extractions) :
               (Completes(task) /\ Current(task)
                  /\ ~Truthy(Cache(Get(layers'), task.layerIndex)))
                 => (error' # Null /\ layers' = layers)]_vars

(***************************************************************************)
(* Properties of the service functions (SpecGemini).                       *)
(***************************************************************************)
\* a required field of the item is absent
LacksField(item) ==
  \/ item.name = Undefined
  \/ item.description = Undefined
  \/ item.type = Undefined
  \/ item.boundingBox.kind = "undefined"

\* C5: a response with an element that lacks name, description, type or
\* boundingBox makes decompose fail as a whole: no layer list is returned.
C5_MalformedElementFailsAll ==
  (analyzed.called /\ analyzed.response.kind = "array"
     /\ \E k \in 1..Len(analyzed.response.items) : LacksField(analyzed.response.items[k]))
    => (~analyzed.result.ok /\ analyzed.result.layers = <<>>)

C5_Witness ==
  /\ analyzed.called
  /\ analyzed.response.kind = "array"
  /\ Len(analyzed.response.items) = 2
  /\ ~LacksField(analyzed.response.items[1])
  /\ ~InvalidItem(analyzed.response.items[1])
  /\ analyzed.response.items[2].boundingBox.kind = "undefined"
  /\ analyzed.response.items[2].name = "Sky"
  /\ ~analyzed.result.ok

\* the response is not a well-formed array of layers
SchemaViolation(resp) ==
  \/ resp.kind = "notArray"
  \/ resp.kind = "array" /\ \E k \in 1..Len(resp.items) : LacksField(resp.items[k])

\* C6: the error of decompose tells which failure occurred: the error the
\* caller gets for a response that violates the schema differs from the
\* error it gets for a call that could not be completed.
C6_ErrorKindPropagated ==
  (analyzed.called /\ SchemaViolation(analyzed.response))
    => /\ ~analyzed.result.ok
       /\ analyzed.result.error
            # analyzeImageForLayers(DecomposeResponse("rejected", <<>>)).error

(***************************************************************************)
(* Properties of the assembler (SpecPsd).                                  *)
(***************************************************************************)
\* n is the integer nearest to num / den, a half rounding up
IsNearest(n, num, den) == -den <= 2 * num - 2 * n * den /\ 2 * num - 2 * n * den < den

\* the position of input layer k in the serialized list
Position(k) == Len(asm.layers) + 1 - k

\* C8: a document that is produced has one layer for the original image
\* plus one per input layer, also for a box that rounds to zero pixels, and
\* the assembly fails only on a decode error, a missing canvas context or a
\* category outside the enumeration.
C8_LayerCount ==
  /\ asm.pc = "loop" => Len(asm.psdLayers) = asm.i
  /\ asm.pc = "done" => Len(asm.psd.children) = 1 + Len(asm.layers)
  /\ (asm.pc = "failed"
        /\ asm.error \notin {"DecodeError", "Could not create layer canvas context"})
       => \E k \in 1..Len(asm.layers) : asm.layers[k].type \notin LayerType

C8_Witness ==
  /\ asm.pc = "done"
  /\ Len(asm.psd.children) = 1 + Len(asm.layers)
  /\ \E k \in 1..Len(asm.layers) :
       /\ ~TakesCutoutPath(asm.layers[k])
       /\ asm.layers[k].boundingBox.width > 0
       /\ asm.layers[k].boundingBox.height > 0
       /\ asm.psd.children[Position(k)].imageData.painted = {}

\* what the assembler emits for one input layer
Emitted(layer) ==
  IF TakesCutoutPath(layer)
    THEN ExtractedLayer(layer, asm.width, asm.height)
    ELSE GuideLayer(layer, asm.width, asm.height,
                    fillRect({}, asm.width, asm.height,
                             GuideRect(layer, asm.width, asm.height),
                             typeToRgba[layer.type]))

\* C9: the serialized list is the reverse of (original image, layer 1, ...,
\* layer n): input layer k is at position n + 1 - k, the original is last.
C9_ReverseOrder ==
  asm.pc = "done"
    => /\ asm.psd.children[Len(asm.layers) + 1]
            = OriginalLayer(asm.imageUrl, asm.width, asm.height)
       /\ \A k \in 1..Len(asm.layers) :
            asm.psd.children[Position(k)] = Emitted(asm.layers[k])

C9_Witness ==
  /\ asm.pc = "done"
  /\ Len(asm.layers) = 2
  /\ TakesCutoutPath(asm.layers[1])
  /\ ~TakesCutoutPath(asm.layers[2])
  /\ asm.psd.children[1].name = <<"[", "TEXT", "] ", "Sky">>
  /\ asm.psd.children[2].name = <<"[Extracted] ", "Sky">>
  /\ asm.psd.children[3].name = <<"Original Image">>

\* C10: an image layer with a cached extraction is emitted at the rounded
\* absolute origin of its box, with the intrinsic size of the cutout and at
\* full opacity, whatever the width and height of the box.
C10_CutoutPlacement ==
  asm.pc = "done"
    => \A k \in 1..Len(asm.layers) :
         TakesCutoutPath(asm.layers[k])
           => LET layer == asm.layers[k]
                  out == asm.psd.children[Position(k)]
              IN  /\ IsNearest(out.left, layer.boundingBox.x * asm.width, Den)
                  /\ IsNearest(out.top, layer.boundingBox.y * asm.height, Den)
                  /\ out.right = out.left + layer.extractedImage.width
                  /\ out.bottom = out.top + layer.extractedImage.height
                  /\ Opacity(out) = FullOpacity

\* a 1x1 cutout of a box at (1/2, 1/2) on a 2x2 canvas lies at (1,1)-(2,2)
C10_Witness ==
  /\ asm.pc = "done"
  /\ asm.width = 2 /\ asm.height = 2
  /\ Len(asm.layers) = 1
  /\ asm.layers[1].type = "image"
  /\ asm.layers[1].extractedImage = Png(1, 1)
  /\ 2 * asm.layers[1].boundingBox.x = Den
  /\ 2 * asm.layers[1].boundingBox.y = Den
  /\ asm.layers[1].boundingBox.width = Den
  /\ asm.layers[1].boundingBox.height = Den
  /\ asm.psd.children[1].left = 1 /\ asm.psd.children[1].top = 1
  /\ asm.psd.children[1].right = 2 /\ asm.psd.children[1].bottom = 2

\* the integer nearest to num / den, a half rounding up
Nearest(num, den) == CHOOSE n \in 0..(num + 1) : IsNearest(n, num, den)

\* the colour family a category is drawn in: text red, shape yellow, image green
InFamily(type, rgba) ==
  CASE type = "text" -> rgba[1] > 2 * rgba[2] /\ rgba[1] > 2 * rgba[3]
    [] type = "shape" -> rgba[1] > 2 * rgba[3] /\ rgba[2] > 2 * rgba[3]
                           /\ rgba[1] <= 2 * rgba[2]
    [] type = "image" -> rgba[2] > rgba[1] /\ rgba[2] > rgba[3]
    [] OTHER -> FALSE

\* the pixels of a width x height canvas inside the box in absolute pixels
BoxPixels(box, width, height) ==
  LET x == Nearest(box.x * width, Den)
      y == Nearest(box.y * height, Den)
      w == Nearest(box.width * width, Den)
      h == Nearest(box.height * height, Den)
  IN  {q \in (0..(width - 1)) \X (0..(height - 1)) :
         x <= q[1] /\ q[1] < x + w /\ y <= q[2] /\ q[2] < y + h}

\* C11: a layer without a usable extraction is emitted as a layer over the
\* whole canvas, (0,0)-(W,H), at an opacity below 1; the pixels painted in
\* it are those of the bounding box in absolute pixels (origin round(x*W),
\* round(y*H), size round(width*W) by round(height*H)), and their colour
\* depends on the category alone: text red, shape yellow, image green.
C11_GuideLayer ==
  asm.pc = "done"
    => \A k \in 1..Len(asm.layers) :
         ~(asm.layers[k].type = "image" /\ Truthy(asm.layers[k].extractedImage))
           => LET layer == asm.layers[k]
                  out == asm.psd.children[Position(k)]
              IN  /\ out.left = 0 /\ out.top = 0
                  /\ out.right = asm.width /\ out.bottom = asm.height
                  /\ Opacity(out) < FullOpacity
                  /\ out.imageData.from = "canvas"
                  /\ {<<p.px, p.py>> : p \in out.imageData.painted}
                       = BoxPixels(layer.boundingBox, asm.width, asm.height)
                  /\ \A p \in out.imageData.painted : InFamily(layer.type, p.rgba)

\* a shape over the upper half of a 2x2 canvas: (0,0)-(2,1) in yellow
C11_Witness ==
  /\ asm.pc = "done"
  /\ asm.width = 2 /\ asm.height = 2
  /\ Len(asm.layers) = 1
  /\ asm.layers[1].type = "shape"
  /\ asm.layers[1].boundingBox.x = 0 /\ asm.layers[1].boundingBox.y = 0
  /\ asm.layers[1].boundingBox.width = Den
  /\ 2 * asm.layers[1].boundingBox.height = Den
  /\ asm.psd.children[1].imageData.painted
       = {[px |-> 0, py |-> 0, rgba |-> <<250, 204, 21, 100>>],
          [px |-> 1, py |-> 0, rgba |-> <<250, 204, 21, 100>>]}
  /\ asm.psd.children[1].opacity = Some(70)

\* the layer the last iteration of the loop pushed
Pushed(a) == a.psdLayers[Len(a.psdLayers)]

\* C12: assembly never triggers extraction.  No step of an assembly calls
\* the extraction service or changes a layer or its cache; an iteration over
\* an image layer without a cached extraction pushes a guide layer, as it
\* does for a shape or text layer; a cutout is pushed only for a layer that
\* is both of category image and cached.
C12_NoAutoExtraction ==
  [][/\ extracted' = extracted
     /\ extractions' = extractions
     /\ layers' = layers
     /\ asm'.layers = asm.layers
     /\ (asm.pc = "loop" /\ asm.i <= Len(asm.layers))
          => LET layer == asm.layers[asm.i]
                 cached == layer.type = "image" /\ Truthy(layer.extractedImage)
             IN  /\ (~cached /\ layer.type \in LayerType)
                      => /\ asm'.pc = "loop"
                         /\ Len(asm'.psdLayers) = Len(asm.psdLayers) + 1
                         /\ Pushed(asm').imageData.from = "canvas"
                         /\ Pushed(asm').name[1] = "["
                         /\ Opacity(Pushed(asm')) = GuideOpacity
                         /\ {<<p.px, p.py>> : p \in Pushed(asm').imageData.painted}
                              = BoxPixels(layer.boundingBox, asm.width, asm.height)
                 /\ (asm'.pc = "loop" /\ Pushed(asm').name[1] = "[Extracted] ")
                      => cached]_vars

\* an image layer without a cache was assembled as a guide, next to one
\* that has a cache and was assembled as a cutout
C12_Witness ==
  /\ asm.pc = "done"
  /\ Len(asm.layers) = 2
  /\ asm.layers[1].type = "image" /\ asm.layers[1].extractedImage = UndefinedPayload
  /\ asm.layers[2].type = "image" /\ Truthy(asm.layers[2].extractedImage)
  /\ asm.psd.children[2].name = <<"[", "IMAGE", "] ", "Sky">>
  /\ asm.psd.children[2].opacity # None
  /\ asm.psd.children[1].name = <<"[Extracted] ", "Sky">>

\* the export handler of the App issues no extraction request and changes no
\* layer: a step that starts or completes an export leaves both alone
ExportRequestsNothing ==
  [][(exports' # exports) => (extractions' = extractions /\ layers' = layers)]_vars

\* C13: a cached extraction that cannot be decoded is not fatal to the
\* document: when the original image decodes, the assembly does not fail on
\* a decode error, and in the document the layer whose cache does not decode
\* is its guide rectangle.
C13_DecodeFailureFallsBack ==
  /\ (asm.pc = "failed" /\ loadImageData(asm.imageUrl).ok) => asm.error # "DecodeError"
  /\ asm.pc = "done"
       => \A k \in 1..Len(asm.layers) :
            ~loadImageDataFromBase64(asm.layers[k].extractedImage).ok
              => asm.psd.children[Position(k)].imageData.from = "canvas"

(***************************************************************************)
(* Properties of the export in the workflow (Spec).                        *)
(***************************************************************************)
\* the step completes the export call task
CompletesExport(task) == BagIn(task, exports) /\ exports' = Remove(exports, task)

ExportFailure == "Failed to export PSD file."

\* C14: when the original image cannot be decoded the assembly fails as a
\* whole: the serializer is not invoked, no document bytes are returned and
\* the export ends with the error message and without a download; every
\* document that is downloaded holds the decoded original image.
C14_OriginalDecodeFailureFatal ==
  [][/\ \A task \in BagToSet(exports) :
          (CompletesExport(task) /\ task.imageUrl.blob.kind # "png")
            => /\ \A ctxOk \in BOOLEAN :
                    /\ ~exportToPsd(task.imageUrl, task.layers, ctxOk).ok
                    /\ exportToPsd(task.imageUrl, task.layers, ctxOk).psd = NoPsd
               /\ download' = None
               /\ error' = ExportFailure
     /\ IsSome(download')
          => LET children == Get(download').bytes.children
             IN  /\ children # <<>>
                 /\ children[Len(children)].name = <<"Original Image">>
                 /\ children[Len(children)].imageData.blob.kind = "png"]_vars

\* the export of an upload that is no image has failed
C14_Witness ==
  /\ IsSome(imageUrl)
  /\ Get(imageUrl).blob = Garbage
  /\ IsSome(layers)
  /\ error = ExportFailure
  /\ ~isExportingPsd
  /\ exports = EmptyBag
  /\ download = None

\* C15: no assembly runs while an extraction for a layer of the same
\* session is pending: an export and an extraction of the open session are
\* never in progress at the same time.
C15_NoExportDuringExtraction ==
  ~(/\ \E task \in BagToSet(exports) : Current(task)
    /\ \E task \in BagToSet(extractions) : Current(task))

\* C16: an export leaves the layer list, the source image and the open
\* preview as they were, when it starts and when it completes, with or
\* without a document; an export that fails changes nothing but the error
\* message and the exporting flag.
C16_ExportFrame ==
  [][(exports' # exports)
       => /\ layers' = layers
          /\ imageFile' = imageFile
          /\ imageUrl' = imageUrl
          /\ modalImage' = modalImage
          /\ \A task \in BagToSet(exports) :
               (CompletesExport(task) /\ download' = None)
                 => /\ error' = ExportFailure
                    /\ ~isExportingPsd'
                    /\ UNCHANGED <<isLoading, statusMessage, extractingLayerIndex,
                                   analyses, extractions, session>>]_vars

\* an export has failed while a cutout is cached and its preview is open
C16_Witness ==
  /\ error = ExportFailure
  /\ exports = EmptyBag
  /\ ~isExportingPsd
  /\ IsSome(imageFile)
  /\ IsSome(modalImage)
  /\ IsSome(layers)
  /\ \E i \in 1..Len(Get(layers)) : Truthy(Cache(Get(layers), i))

AnalysisFailure == "Failed to analyze the image. Please try again with a different image."

\* every useState cell of App has its initial value
SessionFieldsInitial ==
  /\ imageFile = None /\ imageUrl = None /\ layers = None
  /\ ~isLoading /\ statusMessage = "" /\ error = Null
  /\ extractingLayerIndex = NoIndex /\ modalImage = None /\ ~isExportingPsd

\* C17: after a failed decomposition the session is in a pre-analysis
\* state: the message of the failure is shown with an empty (null) layer
\* list and loading ended, the reset action is available, and a reset
\* returns every session field to its initial value and brings back the
\* uploader, from which a new upload starts a decomposition.
C17_FailedDecompositionState ==
  [][/\ (error' = AnalysisFailure)
          => (layers' = None /\ ~isLoading' /\ ErrorDisplayed')
     /\ (IsSome(imageFile) /\ imageFile' = None)
          => (SessionFieldsInitial' /\ UploaderDisplayed')]_vars

\* the same statement for a session before which nothing was reset
FailedDecompositionStateFirstSession ==
  [][(session' = 1 /\ IsSome(imageFile') /\ error' = AnalysisFailure)
       => (layers' = None /\ ~isLoading' /\ ErrorDisplayed')]_vars

(***************************************************************************)
(* Further properties of the service functions (SpecGemini).               *)
(***************************************************************************)
\* the response arrived and none of its parts carries inline image data
NoInlineData(resp) ==
  resp.kind = "ok" /\ \A k \in 1..Len(resp.parts) : ~resp.parts[k].hasInlineData

\* C18: extract returns the payload of the first part that carries inline
\* image data; when no part carries any it fails, with an error that differs
\* from the error of a call that could not be completed, and returns no
\* payload; it never returns an empty or absent payload.
C18_EmptyResultError ==
  extracted.called
    => /\ (extracted.response.kind = "ok" /\ ~NoInlineData(extracted.response))
            => \E k \in 1..Len(extracted.response.parts) :
                 /\ extracted.response.parts[k].hasInlineData
                 /\ \A j \in 1..(k - 1) : ~extracted.response.parts[j].hasInlineData
                 /\ extracted.result.ok => extracted.result.data = extracted.response.parts[k].data
       /\ NoInlineData(extracted.response)
            => /\ ~extracted.result.ok
               /\ extracted.result.error
                    # extractImageLayer(ExtractResponse("rejected", <<>>)).error
       /\ extracted.result.ok => Truthy(extracted.result.data)

(***************************************************************************)
(* Further properties of the assembler (SpecPsd).                          *)
(***************************************************************************)
\* the pixel count p, divided by the dimension, is within half a pixel,
\* 1 / (2 * dimension), of the normalized coordinate v / Den
WithinHalfPixel(p, v, dimension) ==
  LET diff == p * Den - v * dimension
  IN  2 * (IF diff < 0 THEN -diff ELSE diff) <= Den

\* every coordinate of the box lies in [0, 1]
ValidBox(box) ==
  \A v \in {box.x, box.y, box.width, box.height} : 0 <= v /\ v <= Den

\* C19: for every valid bounding box and canvas size, the absolute pixel
\* value the assembler computes for a normalized coordinate,
\* round(v * dimension), divided by the same dimension gives the coordinate
\* back within half a pixel, 1 / (2 * dimension); so do the origins of the
\* cutouts in the document.
C19_RoundTrip ==
  asm.pc \in {"loop", "done"}
    => \A k \in 1..Len(asm.layers) :
         ValidBox(asm.layers[k].boundingBox)
           => LET box == asm.layers[k].boundingBox
                  rect == GuideRect(asm.layers[k], asm.width, asm.height)
              IN  /\ WithinHalfPixel(rect.x, box.x, asm.width)
                  /\ WithinHalfPixel(rect.y, box.y, asm.height)
                  /\ WithinHalfPixel(rect.w, box.width, asm.width)
                  /\ WithinHalfPixel(rect.h, box.height, asm.height)
                  /\ (asm.pc = "done" /\ TakesCutoutPath(asm.layers[k]))
                       => /\ WithinHalfPixel(asm.psd.children[Position(k)].left,
                                             box.x, asm.width)
                          /\ WithinHalfPixel(asm.psd.children[Position(k)].top,
                                             box.y, asm.height)

\* x = 1/2 on a canvas one pixel wide becomes pixel 1: half a pixel away
C19_Witness ==
  /\ asm.pc = "done"
  /\ asm.width = 1
  /\ Len(asm.layers) = 1
  /\ TakesCutoutPath(asm.layers[1])
  /\ ValidBox(asm.layers[1].boundingBox)
  /\ 2 * asm.layers[1].boundingBox.x = Den
  /\ asm.psd.children[1].left = 1

\* C20: every layer list decompose returns is Layer-shaped: the type of
\* each element is image, shape or text (a category with a guide colour)
\* and its boundingBox has all four coordinates; a response with another
\* type or an incomplete boundingBox is rejected.
C20_LayerShaped ==
  (analyzed.called /\ analyzed.result.ok)
    => \A k \in 1..Len(analyzed.result.layers) :
         /\ analyzed.result.layers[k].type \in LayerType
         /\ analyzed.result.layers[k].type \in DOMAIN typeToRgba
         /\ analyzed.result.layers[k].boundingBox.kind = "object"

\* C21: every layer of a document lies inside the canvas, also for a box
\* that overflows it and for a cutout that extends past an edge:
\* 0 <= left <= right <= width and 0 <= top <= bottom <= height.
C21_BoundsClamped ==
  asm.pc = "done"
    => \A j \in 1..Len(asm.psd.children) :
         LET out == asm.psd.children[j]
         IN  /\ 0 <= out.left /\ out.left <= out.right /\ out.right <= asm.psd.width
             /\ 0 <= out.top /\ out.top <= out.bottom /\ out.bottom <= asm.psd.height

\* the layer was emitted by the guide branch
IsGuide(psdLayer) == psdLayer.imageData.from = "canvas"

\* C22: guide layers do not disturb one another through the scratch canvas
\* they share: the pixels of the guide pushed for a layer are those of its
\* own rectangle in its own colour, every other pixel being transparent,
\* and the layers pushed before keep their pixel data when a later layer is
\* drawn and when the list is serialized.
C22_GuidesIndependent ==
  [][/\ (asm.pc = "loop" /\ asm'.pc = "loop")
          => /\ SubSeq(asm'.psdLayers, 1, Len(asm.psdLayers)) = asm.psdLayers
             /\ IsGuide(Pushed(asm'))
                  => /\ asm.i \in 1..Len(asm.layers)
                     /\ \A p \in Pushed(asm').imageData.painted :
                          /\ <<p.px, p.py>> \in BoxPixels(asm.layers[asm.i].boundingBox,
                                                          asm.width, asm.height)
                          /\ InFamily(asm.layers[asm.i].type, p.rgba)
     /\ (asm.pc = "loop" /\ asm'.pc = "done")
          => \A j \in 1..Len(asm.psdLayers) :
               asm'.psd.children[Len(asm.psdLayers) + 1 - j] = asm.psdLayers[j]]_vars

\* two guides on a 2x2 canvas: the first fills it, the second is one pixel
C22_Witness ==
  /\ asm.pc = "done"
  /\ asm.width = 2 /\ asm.height = 2
  /\ Len(asm.layers) = 2
  /\ IsGuide(asm.psd.children[1]) /\ IsGuide(asm.psd.children[2])
  /\ asm.layers[1].type # asm.layers[2].type
  /\ Cardinality(asm.psd.children[2].imageData.painted) = 4
  /\ Cardinality(asm.psd.children[1].imageData.painted) = 1

\* C23: the extracting indicator tracks the requests in flight: while an
\* extraction of the open session is pending, extractingLayerIndex names a
\* layer whose extraction is pending; while none is, it is null.
C23_IndicatorTracksRequests ==
  IF \E task \in BagToSet(extractions) : Current(task)
    THEN /\ extractingLayerIndex # NoIndex
         /\ Requests(extractions, extractingLayerIndex) > 0
    ELSE extractingLayerIndex = NoIndex

====
